---- MODULE Spec2Model ----
(***************************************************************************)
(* Model of columnizer.py (class Columnizer): the column-layout and reflow *)
(* engine.  A Python str is a sequence of one-character strings (a colour  *)
(* escape sequence is one element); a Python value is a tagged record      *)
(*   [t |-> "str",  v |-> <<chars>>]                                        *)
(*   [t |-> "list", v |-> <<values>>]                                       *)
(*   [t |-> "dict", v |-> [keys -> chars]]                                  *)
(* Rows are referred to by name (RowValue gives the value of a name), so   *)
(* the row buffer is a sequence of names.  The output sink is the sequence *)
(* stdout of printed lines.                                                *)
(***************************************************************************)
EXTENDS Integers, Sequences, FiniteSets, TLC

\* ------------------------------------------------------------------ bounds
\* update() calls per run
MaxCalls == 3
\* rows submitted per run, over all calls
MaxRows == 3
\* depth at which the model stops following _reflow_columns -> update ->
\* _update_line -> _reflow_columns (the interpreter's recursion limit)
RecursionLimit == 3

\* ------------------------------------------------------------- the inputs
HId == <<"i", "d">>
HN == <<"n">>
\* the rows of the terminal size that stty reports
TermHeight == 8
\* a terminal one row taller, whose page holds three rows
TallTermHeight == 9
BasePaddings == {1}
None == <<"None">>
\* the col_just argument when it is given
ColJusts == {<<"num", "str">>, <<"right", "left">>}
\* what the operator types at the pagination prompt
Answers == {<<>>, <<"q">>}

PyStr(chars) == [t |-> "str", v |-> chars]
PyList(vals) == [t |-> "list", v |-> vals]
PyDict(f) == [t |-> "dict", v |-> f]

RowA1 == PyList(<<PyStr(<<"a">>), PyStr(<<"1">>)>>)
RowLong == PyList(<<PyStr(<<"a", "b", "c", "d">>), PyStr(<<"2">>)>>)
Row12 == PyList(<<PyStr(<<"1", "2">>), PyStr(<<"a", "b">>)>>)
RowShort == PyList(<<PyStr(<<"a">>)>>)
DictA1 == PyDict((HId :> <<"a">>) @@ (HN :> <<"1">>))
DictLong == PyDict(HId :> <<"a", "b", "c", "d">>)
\* the headers argument: a list of labels, or a list of such lists (tiers)
HeaderArgs == {PyList(<<PyStr(HId), PyStr(HN)>>)}
TieredHeaderArgs ==
    {PyList(<<PyList(<<PyStr(<<"k", "e", "y">>), PyStr(<<"c", "n", "t">>)>>),
              PyList(<<PyStr(HId), PyStr(HN)>>)>>)}
RowFail == PyList(<<PyStr(<<"F", "A", "I", "L">>), PyStr(<<"7", "7">>)>>)
RowUp == PyList(<<PyStr(<<"u", "p">>), PyStr(<<" ", "O", "k">>)>>)
DictFail == PyDict((HId :> <<"F", "a", "i", "l">>) @@ (HN :> <<"x">>))
\* headers whose first column is named like a default colour rule
ColorHeaderArgs ==
    HeaderArgs \cup {PyList(<<PyStr(<<"o", "k">>), PyStr(HN)>>)}
RowValue == [RowA1 |-> RowA1, RowLong |-> RowLong, Row12 |-> Row12,
             RowShort |-> RowShort, DictA1 |-> DictA1, DictLong |-> DictLong,
             RowFail |-> RowFail, RowUp |-> RowUp, DictFail |-> DictFail]
ListRows == {"RowA1", "RowLong", "Row12", "RowShort"}
DictRows == {"DictA1", "DictLong"}
\* the rows shown to the tables on the taller terminal
PageRows == {"DictA1", "DictLong"}
\* the rows shown to the tables that colour their output
ColorRows == {"RowFail", "RowUp", "DictFail"}

\* the argument of update(): one row, or a list of rows
OneRow(name) == [t |-> "row", v |-> <<name>>]
RowList(names) == [t |-> "rows", v |-> names]

\* ---------------------------------------------------------------- strings
Max(a, b) == IF a >= b THEN a ELSE b

Spaces(n) == [i \in 1..Max(n, 0) |-> " "]

\* str.ljust(width) / str.rjust(width): never truncates
ljust(word, width) == word \o Spaces(width - Len(word))

rjust(word, width) == Spaces(width - Len(word)) \o word

RECURSIVE join(_, _)
\* delimiter.join(parts)
join(delim, parts) ==
    IF Len(parts) = 0 THEN <<>>
    ELSE IF Len(parts) = 1 THEN parts[1]
    ELSE parts[1] \o delim \o join(delim, Tail(parts))

RECURSIVE strip(_)
\* str.strip() for the blank character
strip(word) ==
    IF Len(word) = 0 THEN word
    ELSE IF word[1] = " " THEN strip(Tail(word))
    ELSE IF word[Len(word)] = " " THEN strip(SubSeq(word, 1, Len(word) - 1))
    ELSE word

UpperCase == <<"A", "B", "C", "D", "E", "F", "G", "H", "I", "J", "K", "L", "M",
               "N", "O", "P", "Q", "R", "S", "T", "U", "V", "W", "X", "Y", "Z">>
LowerCase == <<"a", "b", "c", "d", "e", "f", "g", "h", "i", "j", "k", "l", "m",
               "n", "o", "p", "q", "r", "s", "t", "u", "v", "w", "x", "y", "z">>

\* str.lower()
lower(word) ==
    [i \in 1..Len(word) |->
        IF \E k \in 1..26 : UpperCase[k] = word[i]
        THEN LowerCase[CHOOSE k \in 1..26 : UpperCase[k] = word[i]]
        ELSE word[i]]

Digits == <<"0", "1", "2", "3", "4", "5", "6", "7", "8", "9">>
IsDigit(c) == \E k \in 1..10 : Digits[k] = c

RECURSIVE DigitsOf(_)
DigitsOf(n) ==
    IF n < 10 THEN <<Digits[n + 1]>> ELSE DigitsOf(n \div 10) \o <<Digits[(n % 10) + 1]>>

\* '{}'.format(n) for an int
FormatInt(n) == IF n < 0 THEN <<"-">> \o DigitsOf(0 - n) ELSE DigitsOf(n)

\* int(word) succeeds on a str: blanks stripped, an optional sign, then digits
\* with single underscores allowed between digits
IntParses(word) ==
    LET w == strip(word)
        body == IF Len(w) > 0 /\ w[1] \in {"+", "-"} THEN Tail(w) ELSE w
    IN  /\ Len(body) > 0
        /\ \A i \in 1..Len(body) :
              \/ IsDigit(body[i])
              \/ /\ body[i] = "_"
                 /\ i > 1 /\ i < Len(body)
                 /\ IsDigit(body[i - 1]) /\ IsDigit(body[i + 1])

\* ------------------------------------------------------------------ state
VARIABLES
    colormap,        \* self.colormap: the rules in insertion order
    delimiter,       \* self.delimiter
    headers,         \* self.headers: the last tier, the keys of column_data
    headers_list,    \* self.headers_list: every tier
    base_padding,    \* the base_padding argument of the constructor
    column_data,     \* self.column_data: key -> [padding, type]
    col_just,        \* self.col_just
    colorize_output, \* self.colorize_output
    message,         \* self.message: the row buffer
    mode,            \* self.mode
    padding_done,    \* self.padding_done
    needs_reflow,    \* self.needs_reflow
    indent,          \* self.indent
    paginate,        \* self.paginate
    paginate_break,  \* self.paginate_break
    print_header,    \* self.print_header
    term_height,     \* self.term_height
    count,           \* self.count
    stdout,          \* the lines printed so far
    raised,          \* the exception that left update(), or "none"
    reflow_depth,    \* the deepest nesting of _reflow_columns calls so far
    discovered,      \* the batch the latest discover_padding call iterated
    discoveries,     \* the number of discover_padding calls so far
    arg,             \* the rows of the argument of the latest update() call
    submitted,       \* every row handed to update() so far, in order
    calls            \* the number of update() calls so far

vars == <<colormap, delimiter, headers, headers_list, base_padding, column_data,
          col_just, colorize_output, message, mode, padding_done, needs_reflow,
          indent, paginate, paginate_break, print_header, term_height, count,
          stdout, raised, reflow_depth, discovered, discoveries, arg, submitted,
          calls>>

config == <<colormap, delimiter, headers, headers_list, base_padding, col_just,
            colorize_output, indent, paginate, paginate_break, print_header,
            term_height>>

\* a colour rule; has_match is FALSE for a column rule given without "match"
Rule(key, color, has_match, match) ==
    [key |-> key, color |-> color, has_match |-> has_match, match |-> match]

StrKey(chars) == [t |-> "str", v |-> chars]
IntKey(n) == [t |-> "int", v |-> n]
KeyEq(a, b) == a.t = b.t /\ a.v = b.v

DefaultColormap == <<
    Rule(StrKey(<<"f", "a", "i", "l">>), "ESC[91m", TRUE,
         {<<"f", "a", "i", "l">>, <<"f", "a", "i", "l", "e", "d">>,
          <<"e", "r", "r", "o", "r">>, <<"f", "a", "l", "s", "e">>, <<"n", "o">>}),
    Rule(StrKey(<<"o", "k">>), "ESC[92m", TRUE,
         {<<"o", "k">>, <<"p", "a", "s", "s">>, <<"p", "a", "s", "s", "e", "d">>,
          <<"s", "u", "c", "c", "e", "s", "s">>, <<"t", "r", "u", "e">>,
          <<"y", "e", "s">>}),
    Rule(StrKey(<<"w", "a", "r", "n">>), "ESC[93m", TRUE,
         {<<"w", "a", "r", "n">>, <<"w", "a", "r", "n", "i", "n", "g">>}),
    Rule(StrKey(<<"h", "e", "a", "d", "e", "r">>), "ESC[93m", TRUE, {}),
    Rule(StrKey(<<"b", "o", "l", "d">>), "ESC[1m", TRUE, {}),
    Rule(StrKey(<<"e", "n", "d">>), "ESC[0m", TRUE, {}) >>

HasRule(cmap, key) == \E i \in 1..Len(cmap) : KeyEq(cmap[i].key, key)
RuleOf(cmap, key) == cmap[CHOOSE i \in 1..Len(cmap) : KeyEq(cmap[i].key, key)]

RECURSIVE dict_update(_, _)
\* self.colormap.update(colormap): a known key keeps its place, a new one is appended
dict_update(cmap, extra) ==
    IF Len(extra) = 0 THEN cmap
    ELSE LET e == extra[1]
             put == IF HasRule(cmap, e.key)
                    THEN [i \in 1..Len(cmap) |->
                             IF KeyEq(cmap[i].key, e.key) THEN e ELSE cmap[i]]
                    ELSE Append(cmap, e)
         IN  dict_update(put, Tail(extra))

\* the colormap argument: False, or a dict with a rule for a column, keyed by
\* its header or by its index, with or without a "match" list
Blue == "ESC[94m"
ColormapArgs ==
    {<<>>,
     <<Rule(StrKey(HId), Blue, FALSE, {})>>,
     <<Rule(StrKey(HId), Blue, TRUE, {})>>,
     <<Rule(IntKey(1), Blue, FALSE, {})>>,
     <<Rule(IntKey(1), Blue, TRUE, {})>>}

\* one printed line: the print call it comes from, its characters, for a row
\* or header line the justified cells, and the rows it is about: the row of a
\* row line, the batch handed to update() for the reflow marker; for the prompt
\* the cells hold what the operator typed
Line(kind, text, cells, rows) ==
    [kind |-> kind, text |-> text, cells |-> cells, rows |-> rows]

NoRow == <<>>

\* no discover_padding call yet
NoBatch == [flat |-> FALSE, rows |-> <<>>]

\* the mutable fields of the object and of its surroundings, as the methods
\* below pass them along
Self == [column_data |-> column_data, message |-> message, mode |-> mode,
         padding_done |-> padding_done, needs_reflow |-> needs_reflow,
         count |-> count, stdout |-> stdout, raised |-> raised,
         depth |-> 0, reflow_depth |-> reflow_depth, discovered |-> discovered,
         discoveries |-> discoveries, stdin |-> <<>>]

\* Columnizer.__init__: the fields a fresh table starts with
Construct(hdrs, base, m) ==
    [column_data |-> [x \in {hdrs[i] : i \in 1..Len(hdrs)} |->
                         [padding |-> base, type |-> "str"]],
     message |-> <<>>, mode |-> m, padding_done |-> FALSE, needs_reflow |-> FALSE,
     count |-> 0, stdout |-> <<>>, raised |-> "none",
     depth |-> 0, reflow_depth |-> 0, discovered |-> NoBatch, discoveries |-> 0,
     stdin |-> <<>>]

print(s, line) == [s EXCEPT !.stdout = Append(@, line)]

\* ------------------------------------------------------- discover_padding
\* Word with '-' for a positional index the row does not reach
Word_lenient(row, key, index) ==
    IF row.t = "dict"
    THEN [ok |-> TRUE, v |-> IF key \in DOMAIN row.v THEN row.v[key] ELSE <<"-">>]
    ELSE IF index > Len(row.v) THEN [ok |-> TRUE, v |-> <<"-">>]
    ELSE IF row.t = "list" THEN [ok |-> TRUE, v |-> row.v[index].v]
    ELSE [ok |-> TRUE, v |-> <<row.v[index]>>]

\* Word with row[key] in place of row.get(key, '-')
Word_strict(row, key, index) ==
    IF row.t = "dict"
    THEN [ok |-> key \in DOMAIN row.v,
          v |-> IF key \in DOMAIN row.v THEN row.v[key] ELSE <<>>]
    ELSE IF index > Len(row.v) THEN [ok |-> FALSE, v |-> <<>>]
    ELSE IF row.t = "list" THEN [ok |-> TRUE, v |-> row.v[index].v]
    ELSE [ok |-> TRUE, v |-> <<row.v[index]>>]

\* row.get(key, '-') for a dict, row[index] otherwise (index counts from 1 here)
Word(row, key, index) ==
    IF row.t = "dict"
    THEN [ok |-> TRUE, v |-> IF key \in DOMAIN row.v THEN row.v[key] ELSE <<"-">>]
    ELSE IF index > Len(row.v) THEN [ok |-> FALSE, v |-> <<>>]
    ELSE IF row.t = "list" THEN [ok |-> TRUE, v |-> row.v[index].v]
    ELSE [ok |-> TRUE, v |-> <<row.v[index]>>]

\* the justification discover_padding stores for a value
DiscoverType(word, index) ==
    IF col_just = None \/ Len(col_just) = 0
    THEN IF IntParses(word) THEN "num" ELSE "str"
    ELSE col_just[index]

\* DiscoverWidth without the width the column already has
DiscoverWidth_fresh(word, col, padding) == Max(Max(Len(word), Len(col)), base_padding)

\* the width discover_padding stores for a value
DiscoverWidth(word, col, padding) == Max(Max(Len(word), Len(col)), padding)

RECURSIVE discover_rows(_, _, _, _, _)

\* discover_rows with a column that stays numeric once a value parsed
discover_rows_sticky(s, rows, r, col, index) ==
    IF s.raised # "none" \/ r > Len(rows) THEN s
    ELSE LET key == headers[index]
             check(w) ==
                 IF ~w.ok THEN [s EXCEPT !.raised = "IndexError"]
                 ELSE discover_rows(
                         [s EXCEPT !.column_data[key] =
                             [padding |-> DiscoverWidth(w.v, col, @.padding),
                              type |-> IF r > 1 /\ @.type = "num" THEN "num"
                                       ELSE DiscoverType(w.v, index)]],
                         rows, r + 1, col, index)
         IN  check(Word(rows[r], key, index))

\* for row in message (lines 117-135), from row r on
discover_rows(s, rows, r, col, index) ==
    IF s.raised # "none" \/ r > Len(rows) THEN s
    ELSE LET key == headers[index]
             check(w) ==
                 IF ~w.ok THEN [s EXCEPT !.raised = "IndexError"]
                 ELSE discover_rows(
                         [s EXCEPT !.column_data[key] =
                             [padding |-> DiscoverWidth(w.v, col, @.padding),
                              type |-> DiscoverType(w.v, index)]],
                         rows, r + 1, col, index)
         IN  check(Word(rows[r], key, index))

RECURSIVE discover_cols(_, _, _, _)
\* for index, col in enumerate(headers) (line 115), from index on
discover_cols(s, rows, tier, index) ==
    IF s.raised # "none" \/ index > Len(tier) THEN s
    ELSE discover_cols(discover_rows(s, rows, 1, tier[index], index),
                       rows, tier, index + 1)

RECURSIVE discover_tiers(_, _, _)
\* for headers in self.headers_list (line 114), from tier t on
discover_tiers(s, rows, t) ==
    IF s.raised # "none" \/ t > Len(headers_list) THEN s
    ELSE discover_tiers(discover_cols(s, rows, headers_list[t], 1), rows, t + 1)

ColorOf(name) == RuleOf(colormap, StrKey(name)).color

\* the justified labels of one tier (lines 139-145)
header_cells(s, tier) ==
    [i \in 1..Len(tier) |->
        IF s.column_data[headers[i]].type = "num"
        THEN rjust(tier[i], s.column_data[headers[i]].padding)
        ELSE ljust(tier[i], s.column_data[headers[i]].padding)]

\* self.delimiter.join(header) (line 147)
header_text(s, tier) == join(delimiter, header_cells(s, tier))

RECURSIVE print_headers(_, _)
\* lines 138-152, from tier t on
print_headers(s, t) ==
    IF t > Len(headers_list) THEN s
    ELSE LET shown(header) ==
                 IF colorize_output
                 THEN <<ColorOf(<<"h", "e", "a", "d", "e", "r">>)>>
                      \o header \o <<"ESC[0m">>
                 ELSE header
         IN  print_headers(
                 print(s, Line("header",
                               Spaces(indent) \o shown(header_text(s, headers_list[t])),
                               header_cells(s, headers_list[t]), NoRow)),
                 t + 1)

\* isinstance(message, list) (line 107): a list of rows, or one positional row
IsList(msg) == msg.t = "rows" \/ RowValue[msg.v[1]].t = "list"

\* what "for row in message" iterates in discover_padding: the rows of a list
\* of rows, the values of a positional row, the one row of [message]
BatchItems(msg) ==
    IF msg.t = "rows" THEN [i \in 1..Len(msg.v) |-> RowValue[msg.v[i]]]
    ELSE IF IsList(msg) THEN RowValue[msg.v[1]].v
    ELSE <<RowValue[msg.v[1]]>>

\* the same batch by name; flat when the values of one row stand for the rows
AsBatch(msg) == [flat |-> msg.t = "row" /\ IsList(msg), rows |-> msg.v]

\* '-' * len(header), the header being that of the last tier printed
line_break(s) ==
    [i \in 1..Len(header_text(s, headers_list[Len(headers_list)])) |-> "-"]

\* lines 103-154
discover_padding(s, msg) ==
    LET show(s2) ==
            IF s2.raised # "none" \/ ~print_header THEN s2
            ELSE print(print_headers(s2, 1),
                       Line("separator", Spaces(indent) \o line_break(s2), <<>>, NoRow))
    IN  show(discover_tiers(
                [s EXCEPT !.padding_done = TRUE, !.discovered = AsBatch(msg),
                          !.discoveries = @ + 1],
                BatchItems(msg), 1))

\* ---------------------------------------------------------------- colorize
RECURSIVE color_by_match(_, _)
\* for category, values in self.colormap.items() (lines 280-282), from rule i on;
\* a rule without "match" raises KeyError
color_by_match(word, i) ==
    IF i > Len(colormap) THEN [ok |-> TRUE, v |-> word]
    ELSE IF ~colormap[i].has_match THEN [ok |-> FALSE, v |-> word]
    ELSE IF strip(lower(word)) \in colormap[i].match
         THEN color_by_match(<<colormap[i].color>> \o word \o <<"ESC[0m">>, i + 1)
         ELSE color_by_match(word, i + 1)

\* headers.index(column), counting from 0
IndexOf(column) == (CHOOSE i \in 1..Len(headers) : headers[i] = column) - 1

\* lines 272-284
colorize(word, column) ==
    IF HasRule(colormap, StrKey(column))
    THEN [ok |-> TRUE,
          v |-> <<RuleOf(colormap, StrKey(column)).color>> \o word \o <<"ESC[0m">>]
    ELSE IF HasRule(colormap, IntKey(IndexOf(column)))
         \* self.colormap[column]: the rule is stored under the index
         THEN [ok |-> FALSE, v |-> word]
         ELSE color_by_match(word, 1)

\* ----------------------------------------------------------- _format_column
\* Overflows with >= in place of >
Overflows_ge(word, padding) == Len(word) >= padding

\* len(word) > padding (line 221)
Overflows(word, padding) == Len(word) > padding

\* the padded text of a value in a column of this width and type (lines 225-228)
Justify(word, type, padding) ==
    IF type = "num" THEN rjust(word, padding) ELSE ljust(word, padding)

\* lines 220-234
format_column(s, col, word) ==
    LET result(s1, msg, colored) ==
            IF colored.ok THEN [s |-> s1, msg |-> colored.v]
            ELSE [s |-> [s1 EXCEPT !.raised = "KeyError"], msg |-> msg]
        color(s1, msg) ==
            IF colorize_output THEN result(s1, msg, colorize(msg, col))
            ELSE [s |-> s1, msg |-> msg]
        pad(s1) ==
            color(s1, Justify(word, s1.column_data[col].type,
                              s1.column_data[col].padding))
    IN  pad(IF Overflows(word, s.column_data[col].padding)
            THEN [s EXCEPT !.column_data[col].padding = Len(word),
                           !.needs_reflow = TRUE]
            ELSE s)

RECURSIVE format_row(_, _, _, _)
\* for index, col in enumerate(self.headers) (lines 187-192), from index on
format_row(s, row, index, cells) ==
    IF s.raised # "none" \/ index > Len(headers) THEN [s |-> s, cells |-> cells]
    ELSE LET rest(f) == format_row(f.s, row, index + 1, Append(cells, f.msg))
             cell(w) ==
                 IF ~w.ok
                 THEN [s |-> [s EXCEPT !.raised = "IndexError"], cells |-> cells]
                 ELSE rest(format_column(s, headers[index], w.v))
         IN  cell(Word(row, headers[index], index))

\* ------------------------------------------ _update_line, _reflow, update
\* PageFull one row later
PageFull_late(buffer) == paginate /\ Len(buffer) + 7 > term_height + 1

\* paginate and len(self.message) + 7 > self.term_height (line 198)
PageFull(buffer) == paginate /\ Len(buffer) + 7 > term_height

\* page_break that leaves the layout established when no header is printed
page_break_if_header(s) ==
    [print(s, Line("page", <<>>, <<>>, NoRow))
        EXCEPT !.message = <<>>,
               !.padding_done = IF print_header THEN FALSE ELSE @]

\* lines 198-205: the page is full after a printed row
page_break(s) ==
    LET clear(paused) ==
            [print(paused, Line("page", <<>>, <<>>, NoRow))
                EXCEPT !.message = <<>>, !.padding_done = FALSE]
    IN  clear(
            IF paginate_break
            THEN print(print(print(s,
                    Line("blank", <<>>, <<>>, NoRow)),
                    Line("lines",
                         <<"l", "i", "n", "e", "s", " ">>
                         \o FormatInt(s.count - term_height + 6) \o <<"-">>
                         \o FormatInt(s.count) \o <<" ">>, <<>>, NoRow)),
                    Line("prompt", <<"Enter to continue, CTRL+C to quit">>,
                         <<s.stdin>>, NoRow))
            ELSE s)

RECURSIVE update(_, _)
RECURSIVE update_line(_, _)
RECURSIVE update_rows(_, _, _)
RECURSIVE reflow_columns(_)

\* reflow_columns without "self.mode = old_mode"
reflow_columns_stay(s) ==
    IF s.depth >= RecursionLimit THEN [s EXCEPT !.raised = "RecursionError"]
    ELSE
    LET batch == s.message
        restore(s3) ==
            IF s3.raised # "none" THEN s3
            ELSE [s3 EXCEPT !.depth = @ - 1]
    IN  restore(update(
            print(print(print(
                [s EXCEPT !.needs_reflow = FALSE, !.padding_done = FALSE,
                          !.mode = "all", !.message = <<>>,
                          !.depth = @ + 1,
                          !.reflow_depth = Max(@, s.depth + 1)],
                Line("blank", <<>>, <<>>, NoRow)),
                Line("marker",
                     Spaces(indent)
                     \o <<"Long value detected, re-flowing columns to fit">>,
                     <<>>, batch)),
                Line("blank", <<>>, <<>>, NoRow)),
            RowList(batch)))

\* reflow_columns without "self.message = []"
reflow_columns_keep(s) ==
    IF s.depth >= RecursionLimit THEN [s EXCEPT !.raised = "RecursionError"]
    ELSE
    LET old_mode == s.mode
        batch == s.message
        restore(s3) ==
            IF s3.raised # "none" THEN s3
            ELSE [s3 EXCEPT !.mode = old_mode, !.depth = @ - 1]
    IN  restore(update(
            print(print(print(
                [s EXCEPT !.needs_reflow = FALSE, !.padding_done = FALSE,
                          !.mode = "all",
                          !.depth = @ + 1,
                          !.reflow_depth = Max(@, s.depth + 1)],
                Line("blank", <<>>, <<>>, NoRow)),
                Line("marker",
                     Spaces(indent)
                     \o <<"Long value detected, re-flowing columns to fit">>,
                     <<>>, batch)),
                Line("blank", <<>>, <<>>, NoRow)),
            RowList(batch)))

\* lines 243-259
reflow_columns(s) ==
    IF s.depth >= RecursionLimit THEN [s EXCEPT !.raised = "RecursionError"]
    ELSE
    LET old_mode == s.mode
        batch == s.message
        restore(s3) ==
            IF s3.raised # "none" THEN s3
            ELSE [s3 EXCEPT !.mode = old_mode, !.depth = @ - 1]
    IN  restore(update(
            print(print(print(
                [s EXCEPT !.needs_reflow = FALSE, !.padding_done = FALSE,
                          !.mode = "all", !.message = <<>>,
                          !.depth = @ + 1,
                          !.reflow_depth = Max(@, s.depth + 1)],
                Line("blank", <<>>, <<>>, NoRow)),
                Line("marker",
                     Spaces(indent)
                     \o <<"Long value detected, re-flowing columns to fit">>,
                     <<>>, batch)),
                Line("blank", <<>>, <<>>, NoRow)),
            RowList(batch)))

\* update_line that prints the row before it looks at needs_reflow
update_line_eager(s, row) ==
    LET page(s2) == IF PageFull(s2.message) THEN page_break(s2) ELSE s2
        formatted_row(cells) == Spaces(indent) \o join(delimiter, cells)
        emit(f) ==
            IF f.s.raised # "none" THEN f.s
            ELSE IF ~f.s.needs_reflow
            THEN page(print(f.s,
                            Line("row", formatted_row(f.cells), f.cells, <<row>>)))
            ELSE reflow_columns(print(f.s,
                            Line("row", formatted_row(f.cells), f.cells, <<row>>)))
    IN  emit(format_row([s EXCEPT !.count = @ + 1, !.message = Append(@, row)],
                        RowValue[row], 1, <<>>))

\* lines 183-207
update_line(s, row) ==
    LET page(s2) == IF PageFull(s2.message) THEN page_break(s2) ELSE s2
        formatted_row(cells) == Spaces(indent) \o join(delimiter, cells)
        emit(f) ==
            IF f.s.raised # "none" THEN f.s
            ELSE IF ~f.s.needs_reflow
            THEN page(print(f.s,
                            Line("row", formatted_row(f.cells), f.cells, <<row>>)))
            ELSE reflow_columns(f.s)
    IN  emit(format_row([s EXCEPT !.count = @ + 1, !.message = Append(@, row)],
                        RowValue[row], 1, <<>>))

\* for row in message: self._update_line(row) (lines 172-173), from row i on
update_rows(s, rows, i) ==
    IF s.raised # "none" \/ i > Len(rows) THEN s
    ELSE update_rows(update_line(s, rows[i]), rows, i + 1)

\* lines 163-173
update(s, msg) ==
    LET dispatch(s2) ==
            IF s2.mode = "line" THEN update_line(s2, msg.v[1])
            ELSE IF s2.mode = "all" THEN update_rows(s2, msg.v, 1)
            ELSE s2
        start(s1) ==
            IF s1.raised # "none" THEN s1
            ELSE dispatch([s1 EXCEPT !.needs_reflow = FALSE])
    IN  start(IF ~s.padding_done THEN discover_padding(s, msg) ELSE s)

\* ----------------------------------------------------------- specification
\* the labels of one tier of the headers argument
Labels(tier) == [i \in 1..Len(tier.v) |-> tier.v[i].v]
Tiers(h) == [i \in 1..Len(h.v) |-> Labels(h.v[i])]

\* the table right after construction, for these choices of the arguments
Constructed(header_args, justs, indents, colorize_arg, colormap_args, heights) ==
    /\ \E h \in header_args :
          /\ headers_list = (IF h.v[1].t = "list" THEN Tiers(h) ELSE <<Labels(h)>>)
          /\ headers = (IF h.v[1].t = "list" THEN Labels(h.v[Len(h.v)]) ELSE Labels(h))
    /\ base_padding \in BasePaddings
    /\ column_data = Construct(headers, base_padding, "line").column_data
    /\ \E cm \in colormap_args : colormap = dict_update(DefaultColormap, cm)
    /\ colorize_output = colorize_arg
    /\ delimiter = <<" ", " ">>
    /\ indent \in indents
    /\ col_just \in justs
    /\ mode \in {"line", "all"}
    /\ paginate \in BOOLEAN
    /\ paginate_break \in (IF paginate THEN BOOLEAN ELSE {FALSE})
    /\ print_header \in BOOLEAN
    /\ term_height \in heights
    /\ message = <<>>
    /\ padding_done = FALSE
    /\ needs_reflow = FALSE
    /\ count = 0
    /\ stdout = <<>>
    /\ raised = "none"
    /\ reflow_depth = 0
    /\ discovered = NoBatch
    /\ discoveries = 0
    /\ arg = <<>>
    /\ submitted = <<>>
    /\ calls = 0

\* rows submitted per run: two more on the taller terminal, where a batch has to
\* be longer to cross a page
RowBudget == IF term_height > TermHeight THEN MaxRows + 2 ELSE MaxRows

\* the caller's update(msg), with `typed` what the operator answers to a prompt
Call(msg, typed) ==
    /\ raised = "none"
    /\ calls < MaxCalls
    /\ Len(submitted) + Len(msg.v) <= RowBudget
    /\ LET returned(s) ==
               /\ column_data' = s.column_data
               /\ message' = s.message
               /\ mode' = s.mode
               /\ padding_done' = s.padding_done
               /\ needs_reflow' = s.needs_reflow
               /\ count' = s.count
               /\ stdout' = s.stdout
               /\ raised' = s.raised
               /\ reflow_depth' = s.reflow_depth
               /\ discovered' = s.discovered
               /\ discoveries' = s.discoveries
       IN  returned(update([Self EXCEPT !.stdin = typed], msg))
    /\ arg' = msg.v
    /\ submitted' = submitted \o msg.v
    /\ calls' = calls + 1
    /\ UNCHANGED config

Typed == IF paginate_break THEN Answers ELSE {<<>>}

\* the rows a caller hands to this table
Rows ==
    IF colorize_output THEN ColorRows
    ELSE IF term_height > TermHeight THEN PageRows
    ELSE ListRows \cup DictRows

\* line mode: update(row)
UpdateRow ==
    /\ mode = "line"
    /\ \E row \in Rows, typed \in Typed : Call(OneRow(row), typed)

RECURSIVE Batches(_)
\* the lists of at most n rows
Batches(n) ==
    IF n = 0 THEN {<<>>}
    ELSE LET shorter == Batches(n - 1)
         IN  shorter \cup {Append(b, r) : b \in shorter, r \in Rows}

\* all mode: update(rows)
UpdateAll ==
    /\ mode = "all"
    /\ \E rows \in Batches(RowBudget - Len(submitted)), typed \in Typed :
          Call(RowList(rows), typed)

Next == UpdateRow \/ UpdateAll

\* tables with inferred justification
Init == Constructed(HeaderArgs, {None}, {0}, FALSE, {<<>>}, {TermHeight})

Spec == Init /\ [][Next]_vars

\* tables with explicit justifications, two header tiers and an indent
InitJust ==
    Constructed(TieredHeaderArgs, ColJusts, {1}, FALSE, {<<>>}, {TermHeight})
    /\ ~paginate

SpecJust == InitJust /\ [][Next]_vars

\* tables that colour their output, with and without a rule for a column
InitColor ==
    Constructed(ColorHeaderArgs, {None}, {0}, TRUE, ColormapArgs, {TermHeight})
    /\ ~paginate

SpecColor == InitColor /\ [][Next]_vars

\* paginated tables on the taller terminal, with batches longer than a page
InitPage ==
    Constructed(HeaderArgs, {None}, {0}, FALSE, {<<>>}, {TallTermHeight})
    /\ paginate
    /\ ~paginate_break

SpecPage == InitPage /\ [][Next]_vars

\* -------------------------------------------------------------- properties
Columns == 1..Len(headers)
Width(c) == column_data[headers[c]].padding
Type(c) == column_data[headers[c]].type
\* the text of the value of column c in the row of this name
Value(name, c) == Word(RowValue[name], headers[c], c).v
Positional(name) == RowValue[name].t = "list"
Mapping(name) == RowValue[name].t = "dict"
FullRow(name) == Mapping(name) \/ Len(RowValue[name].v) >= Len(headers)
AllOf(rows, P(_)) == \A i \in 1..Len(rows) : P(rows[i])
Markers == {i \in 1..Len(stdout) : stdout[i].kind = "marker"}
RowLines == SelectSeq(stdout, LAMBDA e : e.kind = "row")
LastIsPage == Len(stdout) > 0 /\ stdout[Len(stdout)].kind = "page"
\* the header lines and the separator that one discovery prints
HeaderLines == IF print_header THEN Len(headers_list) + 1 ELSE 0

\* the rows of the buffer are the latest row lines, in order, and each of their
\* cells has the current width of its column
BufferAligned ==
    /\ Len(RowLines) >= Len(message)
    /\ \A i \in 1..Len(message) :
          LET e == RowLines[Len(RowLines) - Len(message) + i]
          IN  /\ e.rows = <<message[i]>>
              /\ \A c \in Columns : Len(e.cells[c]) = Width(c)

\* the longest of base_padding, the labels of column c and its values in rows
Needed(rows, c) ==
    LET lens == {base_padding}
                \cup {Len(headers_list[k][c]) : k \in 1..Len(headers_list)}
                \cup {Len(Value(rows[i], c)) : i \in 1..Len(rows)}
    IN  CHOOSE n \in lens : \A m \in lens : n >= m

\* C1: in line mode, with positional rows of full arity fed one update() at a
\* time, every update completes without error; every column is at least as
\* wide as each value of the generation; the rows of the generation are the
\* latest row lines, all printed at the same (current) widths; and when a later
\* row is longer than everything before it in some column the reflow marker
\* has been printed for the rows up to it.
C1_LineModeListReflow ==
    (mode = "line"
     /\ AllOf(submitted, LAMBDA r : Positional(r) /\ FullRow(r)))
    => /\ raised = "none"
       /\ \A i \in 1..Len(message), c \in Columns :
             Width(c) >= Len(Value(message[i], c))
       /\ BufferAligned
       /\ ~paginate =>
             \A j \in 2..Len(submitted) :
                (\E c \in Columns :
                    Len(Value(submitted[j], c)) > Needed(SubSeq(submitted, 1, j - 1), c))
                => \E i \in Markers : stdout[i].rows = SubSeq(submitted, 1, j)

\* C2: whenever update() has returned, every column is at least as wide as each
\* of its header labels and as each value of the rows of the current generation.
C2_WidthCoversValuesAndLabels ==
    (calls > 0 /\ raised = "none")
    => \A c \in Columns :
          /\ \A k \in 1..Len(headers_list) : Width(c) >= Len(headers_list[k][c])
          /\ \A i \in 1..Len(message) : Width(c) >= Len(Value(message[i], c))

RECURSIVE RunEndingAt(_)
\* the rows of the row lines printed since the latest blank, marker or page
\* line before line i, up to line i (header and separator lines do not count)
RunEndingAt(i) ==
    IF i < 1 \/ stdout[i].kind \notin {"row", "header", "separator"} THEN <<>>
    ELSE RunEndingAt(i - 1) \o stdout[i].rows

\* what a reflow announced by the marker at line i prints around it
ReflowAt(i) ==
    LET batch == stdout[i].rows
        first == i + 2 + HeaderLines
        last == i + 1 + HeaderLines + Len(batch)
    IN  /\ i >= 2
        /\ stdout[i - 1].kind = "blank"
        /\ Len(batch) >= 1
        \* the rows before the marker are the buffer without the triggering row
        /\ RunEndingAt(i - 2) = SubSeq(batch, 1, Len(batch) - 1)
        /\ Len(stdout) >= last
        /\ stdout[i + 1].kind = "blank"
        /\ print_header =>
              /\ \A k \in 1..Len(headers_list) : stdout[i + 1 + k].kind = "header"
              /\ stdout[first - 1].kind = "separator"
        /\ \A k \in 1..Len(batch) :
              /\ stdout[first + k - 1].kind = "row"
              /\ stdout[first + k - 1].rows = <<batch[k]>>
        /\ (Len(stdout) = last /\ raised = "none") => message = batch

\* C3: a row that overflows a column is not printed under the old widths;
\* the reflow prints the marker, then the header and separator (if
\* print_header), then every buffered row once in submission order with the
\* triggering row last, and the re-emitted rows are the row buffer again.
C3_ReflowOutputOrder == \A i \in Markers : ReflowAt(i)

\* a reflow of at least two rows, with the header printed
C3_Witness ==
    /\ raised = "none"
    /\ print_header
    /\ \E i \in Markers : Len(stdout[i].rows) >= 2

\* C4: _reflow_columns never runs inside another _reflow_columns.
C4_ReflowNeverNests == reflow_depth <= 1

\* a reflow that re-submitted several rows
C4_Witness ==
    /\ reflow_depth = 1
    /\ raised = "none"
    /\ \E i \in Markers : Len(stdout[i].rows) >= 2

\* C5: after a page break (a row printed with the buffer length plus 7 above the
\* terminal height) the row buffer is empty and, if print_header, a header and
\* separator are printed before the next row line; no update() returns with a
\* full page in the buffer.
C5_HeaderAfterPageBreak ==
    /\ \A i \in 1..Len(stdout) :
          stdout[i].kind = "page"
          => /\ (i = Len(stdout) /\ raised = "none") => message = <<>>
             /\ print_header =>
                   \A j \in (i + 1)..Len(stdout) :
                      stdout[j].kind = "row"
                      => \E k \in (i + 1)..(j - 1) : stdout[k].kind = "separator"
    /\ raised = "none" => ~PageFull(message)

\* this update() printed something and its last line is a page break
EndsOnPageBreak ==
    /\ Len(stdout') > Len(stdout)
    /\ stdout'[Len(stdout')].kind = "page"
    /\ raised' = "none"

\* this update() re-flowed the columns
Reflowed ==
    \E i \in Len(stdout) + 1..Len(stdout') : stdout'[i].kind = "marker"

\* C6 as stated: a page break leaves the layout not established only when
\* print_header is enabled; without print_header it clears the buffer, the
\* layout stays established and, re-flows aside, discovery is not run again
\* after the first one.
C6_ResetOnlyWithHeader ==
    [][/\ EndsOnPageBreak => (message' = <<>> /\ padding_done' = ~print_header)
       /\ (~print_header /\ discoveries > 0 /\ ~Reflowed)
          => discoveries' = discoveries]_vars

\* C6 amended: a page break empties the row buffer and leaves the layout not
\* established whether or not print_header is enabled, and an update() that
\* finds the layout not established runs discovery again.
C6_ResetAlways ==
    [][/\ EndsOnPageBreak => (message' = <<>> /\ ~padding_done')
       /\ (~padding_done /\ raised' = "none") => discoveries' > discoveries]_vars

\* without print_header, an update() that ended on a page break and a later
\* discovery that no re-flow explains
C6_Witness ==
    /\ ~print_header
    /\ raised = "none"
    /\ \E i \in 1..Len(stdout) : stdout[i].kind = "page"
    /\ discoveries > 1 + Cardinality(Markers)

\* the text a justification override asks for
Overridden(just, word, width) ==
    IF just \in {"right", "num"} THEN rjust(word, width) ELSE ljust(word, width)

\* C7: with explicit column justifications every cell of a row line and of a
\* header line is justified as the override of its column says (left or str:
\* to the left; right or num: to the right), and after a discovery the
\* justification stored for a column is its override.
C7_OverrideJustifies ==
    col_just # None
    => /\ \A i \in 1..Len(stdout), c \in Columns :
             /\ stdout[i].kind = "row" =>
                   stdout[i].cells[c]
                   = Overridden(col_just[c], Value(stdout[i].rows[1], c),
                                Len(stdout[i].cells[c]))
             /\ stdout[i].kind = "header" =>
                   stdout[i].cells[c]
                   = Overridden(col_just[c], strip(stdout[i].cells[c]),
                                Len(stdout[i].cells[c]))
       /\ (discoveries > 0 /\ raised = "none") =>
             \A c \in Columns : Type(c) = col_just[c]

Missing(name) == {c \in Columns : headers[c] \notin DOMAIN RowValue[name].v}

\* C9: a mapping row that lacks a header key raises nothing; its row lines show
\* '-' in that column; and a discovery whose last row lacks the key leaves the
\* column at least 1 wide and, without overrides, left-justified (str).
C9_MissingKeyPlaceholder ==
    /\ AllOf(submitted, Mapping) => raised = "none"
    /\ \A i \in 1..Len(stdout) :
          (stdout[i].kind = "row" /\ Mapping(stdout[i].rows[1]))
          => \A c \in Missing(stdout[i].rows[1]) :
                strip(stdout[i].cells[c]) = <<"-">>
    /\ (raised = "none" /\ Len(discovered.rows) > 0
        /\ Mapping(discovered.rows[Len(discovered.rows)]))
       => \A c \in Missing(discovered.rows[Len(discovered.rows)]) :
             /\ Width(c) >= 1
             /\ col_just = None => Type(c) = "str"

\* a row line for a mapping row without the key of a column, discovered last
C9_Witness ==
    /\ raised = "none"
    /\ Len(discovered.rows) > 0
    /\ Mapping(discovered.rows[Len(discovered.rows)])
    /\ Missing(discovered.rows[Len(discovered.rows)]) # {}
    /\ \E i \in 1..Len(stdout) :
          /\ stdout[i].kind = "row"
          /\ stdout[i].rows = <<discovered.rows[Len(discovered.rows)]>>

\* the characters of the printed lines
Text(out) == [i \in 1..Len(out) |-> out[i].text]

\* an identically configured table in all mode after one update() with every
\* row submitted so far
AllAtOnce == update(Construct(headers, base_padding, "all"), RowList(submitted))

C11_CountIsRowLines ==
    [][/\ count' >= count
       /\ raised' = "none" => count' = Len(SelectSeq(stdout', LAMBDA e : e.kind = "row"))]_vars

\* C12: at a pagination prompt the answer q ends the session, so no row line
\* follows that prompt; after any other answer the run goes on with the page
\* break.
C12_QuitSentinelStops ==
    \A i \in 1..Len(stdout) :
       stdout[i].kind = "prompt"
       => IF stdout[i].cells = <<<<"q">>>>
          THEN \A j \in (i + 1)..Len(stdout) : stdout[j].kind # "row"
          ELSE i < Len(stdout) /\ stdout[i + 1].kind = "page"

\* the colour codes among the characters of a printed cell
Codes(cell) == SelectSeq(cell, LAMBDA ch : Len(ch) > 1)
\* the text of a printed cell without its colour codes
Plain(cell) == SelectSeq(cell, LAMBDA ch : Len(ch) = 1)
\* the match list of the default rule of this name
MatchSet(name) == RuleOf(DefaultColormap, StrKey(name)).match
\* the match lists of all default rules
AllMatches == UNION {DefaultColormap[i].match : i \in 1..Len(DefaultColormap)}

\* C13: with colorize enabled and the default colour rules, a cell whose
\* stripped, lowercased text is in the fail match list is wrapped in the fail
\* colour once and in no other colour, and a cell whose text is in no match
\* list has no colour code.
C13_FailColourOnly ==
    (colorize_output /\ colormap = DefaultColormap)
    => \A i \in 1..Len(stdout), c \in Columns :
          stdout[i].kind = "row"
          => LET cell == stdout[i].cells[c]
                 text == strip(lower(Plain(cell)))
             IN  /\ text \in MatchSet(<<"f", "a", "i", "l">>)
                    => /\ Codes(cell) = <<"ESC[91m", "ESC[0m">>
                       /\ cell[1] = "ESC[91m"
                       /\ cell[Len(cell)] = "ESC[0m"
                 /\ text \notin AllMatches => Codes(cell) = <<>>

\* the columns the colour map has a rule for, by header key or by index
Keyed(c) ==
    HasRule(colormap, StrKey(headers[c])) \/ HasRule(colormap, IntKey(c - 1))
\* the rule of such a column
ColumnRule(c) ==
    IF HasRule(colormap, StrKey(headers[c]))
    THEN RuleOf(colormap, StrKey(headers[c]))
    ELSE RuleOf(colormap, IntKey(c - 1))

\* C14: with colorize enabled and a rule keyed by a column (by its header key
\* or by its index), no update() fails on the colour map and every value
\* printed in that column is wrapped in that rule's colour and in no other.
C14_ColumnRuleWins ==
    (colorize_output /\ \E c \in Columns : Keyed(c))
    => /\ raised # "KeyError"
       /\ \A i \in 1..Len(stdout), c \in Columns :
             (stdout[i].kind = "row" /\ Keyed(c))
             => Codes(stdout[i].cells[c]) = <<ColumnRule(c).color, "ESC[0m">>

\* the rows handed to update() that are positional and have fewer values than
\* there are headers
ShortRows == {i \in 1..Len(submitted) : ~FullRow(submitted[i])}

\* C15: an update() with a positional row that has fewer values than there are
\* headers ends in an IndexError at the caller, and no row line is printed for
\* that row.
C15_ShortRowRaises ==
    ShortRows # {}
    => /\ raised = "IndexError"
       /\ \A k \in ShortRows, i \in 1..Len(stdout) :
             stdout[i].kind = "row" => stdout[i].rows # <<submitted[k]>>

\* a short row that came after rows that were printed
C15_Witness ==
    /\ ShortRows # {}
    /\ raised = "IndexError"
    /\ padding_done
    /\ \E i \in 1..Len(stdout) : stdout[i].kind = "row"

\* C16: no update() lowers the width of a column, and no width is below
\* base_padding.
C16_WidthNeverShrinks ==
    [][\A c \in Columns :
          /\ column_data'[headers[c]].padding >= Width(c)
          /\ column_data'[headers[c]].padding >= base_padding]_vars

\* a later discovery over rows that need less than the width a column has
C16_Witness ==
    /\ raised = "none"
    /\ discoveries >= 2
    /\ ~discovered.flat
    /\ \E c \in Columns : Width(c) > Needed(discovered.rows, c)

\* C17: whenever update() has returned, every row of the row buffer was last
\* printed with exactly the current width in every column.
C17_BufferRowsAligned == raised = "none" => BufferAligned

\* C18: a row submitted while the layout is not established (the first row of
\* the table, or the first after a pagination reset) never triggers a reflow,
\* for positional and for mapping rows: an update() that starts without an
\* established layout prints no reflow marker before its first row line.
C18_NoReflowOnFirstRow ==
    [][~padding_done
       => \A i \in (Len(stdout) + 1)..Len(stdout') :
             stdout'[i].kind = "marker"
             => \E j \in (Len(stdout) + 1)..(i - 1) : stdout'[j].kind = "row"]_vars

\* C19: whenever update() has returned, with pagination the row buffer is empty
\* or its length plus 7 is at most the terminal height; without pagination the
\* buffer holds every row submitted so far, in submission order.
C19_BufferBounded ==
    raised = "none"
    => /\ paginate => (message = <<>> \/ Len(message) + 7 <= term_height)
       /\ ~paginate => message = submitted

\* a paginated table that has re-flowed, broken a page and buffers a row again
C19_Witness ==
    /\ raised = "none"
    /\ paginate
    /\ message # <<>>
    /\ Markers # {}
    /\ \E i \in 1..Len(stdout) : stdout[i].kind = "page"

\* C20: whenever update() returns normally the mode is the one the table had
\* before the call (so the one given at construction) and the reflow flag is
\* false, also when the call re-flowed the columns.
C20_ModeRestored ==
    [][raised' = "none" => (mode' = mode /\ ~needs_reflow')]_vars

\* a line-mode table after a later update() that re-flowed the columns
C20_Witness ==
    /\ raised = "none"
    /\ mode = "line"
    /\ calls >= 2
    /\ \E i \in Markers : stdout[i].rows = submitted

====
